---- MODULE Spec2Model ----
(***************************************************************************)
(* Model of the automated quiz solver: the chain controller                *)
(* (QuizSolver.solve_quiz_chain / solve_single_quiz), the plan extractor's  *)
(* JSON recovery and submit-URL repair (analyze_and_solve), the answer      *)
(* coercion for the shape 'number' (execute_solution_plan) and the          *)
(* acceptance endpoint (app.quiz_endpoint).                                 *)
(*                                                                         *)
(* Text is modelled as a sequence of one-character strings, so that         *)
(* startswith, find, rfind, replace and the regular expression are          *)
(* computed character by character.                                        *)
(***************************************************************************)
EXTENDS Integers, Sequences, FiniteSets, TLC

VARIABLES
    \* ---- chain controller (one QuizSolver.solve_quiz_chain call) ----
    pc,            \* position of the chain worker
    current_url,   \* solve_quiz_chain: current_url
    quiz_count,    \* solve_quiz_chain: quiz_count
    elapsed,       \* last value read for time.time() - self.start_time
    plan,          \* analyze_and_solve: plan (after JSON recovery)
    parseKind,     \* how the plan was recovered from the model response
    answer,        \* analyze_and_solve: answer (execute_solution_plan result)
    submit_url,    \* solve_single_quiz: submit_url (after repair)
    response,      \* solve_single_quiz: response (submit_answer result)
    reason,        \* why the loop was left
    calls,         \* number of fetch / plan / answer / POST calls made
    lastPost,      \* this step's submission POST: target, answer, outcome
    nextSeen,      \* number of gradings so far that included a next URL
    lastFetch,     \* this step's fetch_quiz_page call: attempts and result
    \* ---- submit-URL repair on its own ----
    uIn,           \* inputs: quiz URL and the plan's submit URL
    uOut,          \* repaired URL
    \* ---- number coercion on its own ----
    nIn,           \* the model's answer text
    nOut,          \* the coerced answer
    \* ---- acceptance endpoint ----
    hpc,           \* position of each request handler
    body,          \* request body of each request
    status,        \* HTTP status returned for each request
    started,       \* number of threads started for each request
    wpc,           \* position of each request's worker thread
    \* ---- chart data selection on its own ----
    cIn,           \* the acquired data, in list order
    cOut           \* the datum selected and the answer

chainVars == <<pc, current_url, quiz_count, elapsed, plan, parseKind, answer,
               submit_url, response, reason, calls, lastPost, nextSeen,
               lastFetch>>
urlVars   == <<uIn, uOut>>
numVars   == <<nIn, nOut>>
appVars   == <<hpc, body, status, started, wpc>>
chartVars == <<cIn, cOut>>
vars      == <<chainVars, urlVars, numVars, appVars, chartVars>>
notChain  == <<urlVars, numVars, appVars, chartVars>>

(***************************************************************************)
(* Bounds of the model                                                     *)
(***************************************************************************)
StepDelay   == 45   \* seconds a slow step takes between two clock readings
MaxTextLen  == 3    \* longest generated answer / response text
MaxRequests == 2    \* number of requests sent to the endpoint
MaxData == 3        \* longest list of acquired data handed to the chart step

(***************************************************************************)
(* Program constants                                                       *)
(***************************************************************************)
max_quizzes == 20
TimeCeiling == 170

None == "None"      \* Python's None

(***************************************************************************)
(* Text helpers (str methods)                                              *)
(***************************************************************************)
StartsWith(s, p) == Len(s) >= Len(p) /\ SubSeq(s, 1, Len(p)) = p

Contains(s, p) ==
    \E i \in 1..(Len(s) - Len(p) + 1) : SubSeq(s, i, i + Len(p) - 1) = p

\* str.find, 1-based; 0 when absent (Python: -1)
Find(s, p) ==
    IF Contains(s, p)
    THEN CHOOSE i \in 1..(Len(s) - Len(p) + 1) :
             /\ SubSeq(s, i, i + Len(p) - 1) = p
             /\ \A j \in 1..(i - 1) : SubSeq(s, j, j + Len(p) - 1) # p
    ELSE 0

\* str.rfind, 1-based; 0 when absent (Python: -1)
RFind(s, p) ==
    IF Contains(s, p)
    THEN CHOOSE i \in 1..(Len(s) - Len(p) + 1) :
             /\ SubSeq(s, i, i + Len(p) - 1) = p
             /\ \A j \in (i + 1)..(Len(s) - Len(p) + 1) :
                    SubSeq(s, j, j + Len(p) - 1) # p
    ELSE 0

RECURSIVE Replace(_, _, _)
\* str.replace(old, new): all non-overlapping occurrences, left to right
Replace(s, old, new) ==
    IF Len(s) < Len(old) THEN s
    ELSE IF StartsWith(s, old)
         THEN new \o Replace(SubSeq(s, Len(old) + 1, Len(s)), old, new)
         ELSE <<Head(s)>> \o Replace(Tail(s), old, new)

(***************************************************************************)
(* Text constants                                                          *)
(***************************************************************************)
T_http        == <<"h","t","t","p">>
T_https       == <<"h","t","t","p","s">>
T_ftp         == <<"f","t","p">>
T_slash       == <<"/">>
T_sep         == <<":","/","/">>
T_placeholder ==
    <<"c","u","r","r","e","n","t","-","p","a","g","e","-","u","r","l">>

Letters == {"a","b","c","d","e","f","g","h","i","j","k","l","m","n","o","p",
            "q","r","s","t","u","v","w","x","y","z"}
Digits  == {"0","1","2","3","4","5","6","7","8","9"}

(***************************************************************************)
(* urllib.parse.urlparse                                                   *)
(* Each step of the parse hands its result to the next one as an argument. *)
(***************************************************************************)
SchemeChars == Letters \cup Digits \cup {"+", "-", "."}

\* s.split(c, 1), as the pair <<before, after>>; after is empty when c is
\* absent
SplitOn(s, c) ==
    LET i == Find(s, c)
    IN  IF i = 0 THEN <<s, <<>>>>
        ELSE <<SubSeq(s, 1, i - 1), SubSeq(s, i + 1, Len(s))>>

\* urlsplit: the url has a scheme when the text before the first ':' is not
\* empty, starts with a letter and consists of scheme characters only
SplitScheme(url) ==
    LET i == Find(url, <<":">>)
    IN  IF /\ i > 1
           /\ url[1] \in Letters
           /\ \A k \in 1..(i - 1) : url[k] \in SchemeChars
        THEN <<SubSeq(url, 1, i - 1), SubSeq(url, i + 1, Len(url))>>
        ELSE <<<<>>, url>>

\* _splitnetloc: the netloc ends at the first of '/', '?', '#'
NetlocEnd(rest) ==
    LET stops == {k \in 3..Len(rest) : rest[k] \in {"/", "?", "#"}}
    IN  IF stops = {} THEN Len(rest)
        ELSE (CHOOSE k \in stops : \A m \in stops : k <= m) - 1

SplitNetloc(rest) ==
    IF StartsWith(rest, <<"/","/">>)
    THEN <<SubSeq(rest, 3, NetlocEnd(rest)),
           SubSeq(rest, NetlocEnd(rest) + 1, Len(rest))>>
    ELSE <<<<>>, rest>>

ParsedUrl(scheme, netloc, pq, fragment) ==
    [scheme |-> scheme, netloc |-> netloc, path |-> pq[1], query |-> pq[2],
     fragment |-> fragment]

ParseFragment(scheme, netloc, pf) ==
    ParsedUrl(scheme, netloc, SplitOn(pf[1], <<"?">>), pf[2])

ParseNetloc(scheme, nl) ==
    ParseFragment(scheme, nl[1], SplitOn(nl[2], <<"#">>))

ParseScheme(ss) == ParseNetloc(ss[1], SplitNetloc(ss[2]))

\* urlparse(url), without the params of the last path segment
UrlParse(url) == ParseScheme(SplitScheme(url))

(***************************************************************************)
(* urllib.parse.urljoin                                                    *)
(***************************************************************************)
UsesRelative == {<<>>, T_http, T_https, T_ftp}
UsesNetloc   == {<<>>, T_http, T_https, T_ftp}

RECURSIVE SplitSlash(_)
\* path.split('/')
SplitSlash(p) ==
    LET i == Find(p, T_slash)
    IN  IF i = 0 THEN <<p>>
        ELSE <<SubSeq(p, 1, i - 1)>> \o SplitSlash(SubSeq(p, i + 1, Len(p)))

RECURSIVE JoinSlash(_)
\* '/'.join(segments)
JoinSlash(segs) ==
    IF segs = <<>> THEN <<>>
    ELSE IF Len(segs) = 1 THEN segs[1]
    ELSE segs[1] \o T_slash \o JoinSlash(Tail(segs))

DropLast(q) == SubSeq(q, 1, Len(q) - 1)

\* base_parts = bpath.split('/'), without a non-empty last part
BaseParts(parts) ==
    IF parts[Len(parts)] # <<>> THEN DropLast(parts) ELSE parts

\* segments[1:-1] = filter(None, segments[1:-1])
DropEmptyInner(segs) ==
    IF Len(segs) < 3 THEN segs
    ELSE <<segs[1]>>
         \o SelectSeq(SubSeq(segs, 2, Len(segs) - 1), LAMBDA g : g # <<>>)
         \o <<segs[Len(segs)]>>

RECURSIVE ResolveDots(_, _)
\* the loop over segments that removes '.' and '..'
ResolveDots(segs, acc) ==
    IF segs = <<>> THEN acc
    ELSE IF Head(segs) = <<".", ".">>
         THEN ResolveDots(Tail(segs), IF acc = <<>> THEN acc ELSE DropLast(acc))
    ELSE IF Head(segs) = <<".">> THEN ResolveDots(Tail(segs), acc)
    ELSE ResolveDots(Tail(segs), Append(acc, Head(segs)))

\* the resolved path ends in '' when the last segment was '.' or '..';
\* an empty result is '/'
ResolvedPath(segments, resolved) ==
    LET r == IF segments[Len(segments)] \in {<<".">>, <<".", ".">>}
             THEN Append(resolved, <<>>) ELSE resolved
    IN  IF JoinSlash(r) = <<>> THEN T_slash ELSE JoinSlash(r)

Resolve(segments) == ResolvedPath(segments, ResolveDots(segments, <<>>))

MergePath(bpath, path) ==
    Resolve(IF StartsWith(path, T_slash) THEN SplitSlash(path)
            ELSE DropEmptyInner(BaseParts(SplitSlash(bpath))
                                \o SplitSlash(path)))

\* urlunparse / urlunsplit (no params)
UrlUnparse(scheme, netloc, path, query, fragment) ==
    (IF scheme # <<>> THEN scheme \o <<":">> ELSE <<>>)
    \o (IF netloc # <<>> \/ (scheme # <<>> /\ scheme \in UsesNetloc
                             /\ ~StartsWith(path, <<"/","/">>))
        THEN <<"/","/">> \o netloc
             \o (IF path # <<>> /\ ~StartsWith(path, T_slash)
                 THEN T_slash ELSE <<>>)
        ELSE <<>>)
    \o path
    \o (IF query # <<>> THEN <<"?">> \o query ELSE <<>>)
    \o (IF fragment # <<>> THEN <<"#">> \o fragment ELSE <<>>)

\* urljoin after both URLs are parsed; u was parsed with the base's scheme
\* as its default scheme
JoinParsed(b, u, url) ==
    LET scheme == IF u.scheme = <<>> THEN b.scheme ELSE u.scheme
    IN  IF scheme # b.scheme \/ scheme \notin UsesRelative THEN url
        ELSE IF scheme \in UsesNetloc /\ u.netloc # <<>>
        THEN UrlUnparse(scheme, u.netloc, u.path, u.query, u.fragment)
        ELSE IF u.path = <<>>
        THEN UrlUnparse(scheme,
                        IF scheme \in UsesNetloc THEN b.netloc ELSE u.netloc,
                        b.path,
                        IF u.query = <<>> THEN b.query ELSE u.query,
                        u.fragment)
        ELSE UrlUnparse(scheme,
                        IF scheme \in UsesNetloc THEN b.netloc ELSE u.netloc,
                        MergePath(b.path, u.path), u.query, u.fragment)

UrlJoin(base, url) ==
    IF base = <<>> THEN url
    ELSE IF url = <<>> THEN base
    ELSE JoinParsed(UrlParse(base), UrlParse(url), url)

(***************************************************************************)
(* analyze_and_solve: repair of the plan's submit URL                      *)
(***************************************************************************)
NeedsRepair(s) ==
    s # <<>> /\ (Contains(s, T_placeholder) \/ ~StartsWith(s, T_http))

\* the repair with the placeholder branch tested before the '/' branch
Repaired_PlaceholderFirst(s, parsed, quiz_url) ==
    IF Contains(s, T_placeholder)
    THEN (IF ~StartsWith(Replace(s, T_placeholder, parsed.netloc), T_http)
          THEN parsed.scheme \o T_sep ELSE <<>>)
         \o Replace(s, T_placeholder, parsed.netloc)
    ELSE IF StartsWith(s, T_slash)
         THEN parsed.scheme \o T_sep \o parsed.netloc \o s
         ELSE UrlJoin(quiz_url, s)

\* the three branches of the repair; parsed is urlparse(quiz_url)
Repaired(s, parsed, quiz_url) ==
    IF StartsWith(s, T_slash)
    THEN parsed.scheme \o T_sep \o parsed.netloc \o s
    ELSE IF Contains(s, T_placeholder)
         THEN (IF ~StartsWith(Replace(s, T_placeholder, parsed.netloc),
                              T_http)
               THEN parsed.scheme \o T_sep ELSE <<>>)
              \o Replace(s, T_placeholder, parsed.netloc)
         ELSE UrlJoin(quiz_url, s)

RepairSubmitUrl(s, quiz_url) ==
    IF NeedsRepair(s) THEN Repaired(s, UrlParse(quiz_url), quiz_url) ELSE s

(***************************************************************************)
(* Inputs of the chain: URLs, page fetches, model responses, gradings      *)
(***************************************************************************)
U_quizA  == <<"h","t","t","p",":","/","/","h",".","i","o","/","q">>
U_quizB  == <<"h","t","t","p","s",":","/","/","h","t","t","p","b","i","n",
              ".","o","r","g","/","a","/","b">>
U_absS   == <<"h","t","t","p",":","/","/","h",".","i","o","/","s">>
U_relS   == <<"/","s">>

QuizUrls       == {U_quizA, U_quizB}            \* URLs of quiz pages
PlanSubmitUrls == {<<>>, U_relS, U_absS}        \* <<>>: missing or empty
NextUrls       == {<<>>} \cup QuizUrls          \* <<>>: no next URL

\* Waiting times between two evaluations of time.time() - self.start_time
\* (a fast step, a slow step, and one call that takes the whole budget)
Delays == {0, StepDelay, TimeCeiling}

\* fetch_quiz_page: the browser attempt and, if it fails, the plain GET
BrowserOutcomes == {"ok", "fail"}
HttpOutcomes    == {"200", "200empty", "status", "error"}

\* fetch_quiz_page that drops the text of the fallback GET
FetchQuizPage_FallbackLost(b, h) ==
    IF b = "ok" THEN "html" ELSE None

FetchQuizPage(b, h) ==
    IF b = "ok" THEN "html"
    ELSE IF h = "200" THEN "html"
    ELSE IF h = "200empty" THEN ""
    ELSE None

\* Python truthiness of the page content
ContentOk(c) == c # None /\ c # ""

\* Text of the plan-extraction response, as tokens: an opening brace, a
\* closing brace, other text, and a JSON scalar.  The members between the
\* braces of an object are not part of the token text; they are the fields.
PlanTokens == {"{", "}", "x", "7"}

RECURSIVE TextsUpTo(_, _)
TextsUpTo(alphabet, n) ==
    IF n = 0 THEN {<<>>}
    ELSE LET shorter == TextsUpTo(alphabet, n - 1)
         IN  shorter \cup {Append(t, c) : t \in shorter, c \in alphabet}

\* json.loads on a token text
JsonLoads(t) ==
    IF t = <<"{", "}">> THEN "dict"
    ELSE IF t = <<"7">> THEN "nondict"
    ELSE "raise"

NoPlan == [kind |-> "none", submit_url |-> <<>>]

\* ParsePlan with the plan's fields kept where the error plan belongs
ParsePlan_KeepsFields(analysis, fieldUrl) ==
    LET direct == JsonLoads(analysis)
        start  == Find(analysis, <<"{">>)
        last   == RFind(analysis, <<"}">>)
    IN  IF direct = "dict"
        THEN [how |-> "direct", kind |-> "dict", submit_url |-> fieldUrl]
        ELSE IF direct = "nondict"
        THEN [how |-> "direct", kind |-> "nondict", submit_url |-> <<>>]
        ELSE IF start # 0 /\ last >= start
        THEN IF JsonLoads(SubSeq(analysis, start, last)) = "dict"
             THEN [how |-> "substring", kind |-> "dict",
                   submit_url |-> fieldUrl]
             ELSE [how |-> "raise", kind |-> "none", submit_url |-> <<>>]
        ELSE [how |-> "errorplan", kind |-> "dict", submit_url |-> fieldUrl]

\* analyze_and_solve: json.loads(analysis), then the substring from the
\* first '{' to the last '}', then the error plan
ParsePlan(analysis, fieldUrl) ==
    LET direct == JsonLoads(analysis)
        start  == Find(analysis, <<"{">>)
        last   == RFind(analysis, <<"}">>)
    IN  IF direct = "dict"
        THEN [how |-> "direct", kind |-> "dict", submit_url |-> fieldUrl]
        ELSE IF direct = "nondict"
        THEN [how |-> "direct", kind |-> "nondict", submit_url |-> <<>>]
        ELSE IF start # 0 /\ last >= start
        THEN IF JsonLoads(SubSeq(analysis, start, last)) = "dict"
             THEN [how |-> "substring", kind |-> "dict",
                   submit_url |-> fieldUrl]
             ELSE [how |-> "raise", kind |-> "none", submit_url |-> <<>>]
        ELSE [how |-> "errorplan", kind |-> "dict", submit_url |-> <<>>]

\* execute_solution_plan: outcome of the answer request
AnswerOutcomes == {"text", "empty", "raise"}

ExecuteSolutionPlan(planKind, o) ==
    IF planKind # "dict" THEN None        \* plan.get raises, caught: None
    ELSE IF o = "text" THEN "value"       \* every coercion yields a value
    ELSE None                             \* empty answer or exception

\* submit_answer: outcome of requests.post
NoResponse == [kind |-> "none", correct |-> FALSE, url |-> <<>>]

PostOutcomes ==
    {[kind |-> k, correct |-> FALSE, url |-> <<>>] :
        k \in {"error", "status", "badjson", "falsy", "nondict"}}
    \cup {[kind |-> "dict", correct |-> c, url |-> u] :
            c \in BOOLEAN, u \in NextUrls}

\* submit_answer without the test of the status code
SubmitAnswer_AnyStatus(o) ==
    IF o.kind \in {"error", "badjson"} THEN NoResponse ELSE o

SubmitAnswer(o) ==
    IF o.kind \in {"error", "status", "badjson"} THEN NoResponse ELSE o

\* Python truthiness of the value returned by submit_answer
ResponseTruthy(r) == r.kind \in {"dict", "nondict"}

\* the continuation made to depend on the correct flag
NextUrlOf_OnlyCorrect(r) ==
    IF ResponseTruthy(r) /\ r.correct THEN r.url ELSE <<>>

\* solve_single_quiz, after submit_answer: the URL returned
NextUrlOf(r) ==
    IF ResponseTruthy(r)
    THEN IF r.correct THEN r.url
         ELSE IF r.url # <<>> THEN r.url ELSE <<>>
    ELSE <<>>

\* the loop test off by one
LoopCond_OffByOne(url, n) == url # <<>> /\ n <= max_quizzes

\* while current_url and quiz_count < max_quizzes
LoopCond(url, n) == url # <<>> /\ n < max_quizzes

\* the time check with a later ceiling
TimeLimitExceeded_Late(e) == e > TimeCeiling + StepDelay

\* if time.time() - self.start_time > 170
TimeLimitExceeded(e) == e > TimeCeiling

(***************************************************************************)
(* The chain controller                                                    *)
(***************************************************************************)
NoCalls == [fetch |-> 0, plan |-> 0, answer |-> 0, post |-> 0]
NoPost  == [to |-> <<>>, answer |-> None, outcome |-> "none"]
NoFetch == [browser |-> 0, http |-> 0, b |-> "none", h |-> "none",
            content |-> "pending"]

ChainIdle ==
    /\ pc = "idle" /\ current_url = <<>> /\ quiz_count = 0 /\ elapsed = 0
    /\ plan = NoPlan /\ parseKind = "none" /\ answer = None
    /\ submit_url = <<>> /\ response = NoResponse /\ reason = "running"
    /\ calls = NoCalls /\ lastPost = NoPost /\ nextSeen = 0
    /\ lastFetch = NoFetch

UrlIdle == uIn = <<>> /\ uOut = <<>>
NumIdle == nIn = <<>> /\ nOut = [kind |-> "none"]
AppIdle ==
    /\ hpc = <<>> /\ body = <<>> /\ status = <<>> /\ started = <<>>
    /\ wpc = <<>>
NoChart == [done |-> FALSE, selected |-> 0, chart |-> "none",
            answer |-> "pending"]
ChartIdle == cIn = <<>> /\ cOut = NoChart

\* solve_quiz_chain, lines 28-31
InitChain ==
    /\ pc = "loop"
    /\ current_url \in QuizUrls
    /\ quiz_count = 0
    /\ elapsed = 0
    /\ plan = NoPlan
    /\ parseKind = "none"
    /\ answer = None
    /\ submit_url = <<>>
    /\ response = NoResponse
    /\ reason = "running"
    /\ calls = NoCalls
    /\ lastPost = NoPost
    /\ nextSeen = 0
    /\ lastFetch = NoFetch

Stop(why) ==
    /\ pc' = "done"
    /\ reason' = why

\* The loop test, the time check and the increment of the step counter
LoopCheck ==
    /\ pc = "loop"
    /\ IF ~LoopCond(current_url, quiz_count)
       THEN /\ Stop("step-limit-reached")
            /\ UNCHANGED <<quiz_count, elapsed>>
       ELSE \E d \in Delays :
               /\ elapsed' = elapsed + d
               /\ IF TimeLimitExceeded(elapsed')
                  THEN Stop("time-limit-reached") /\ UNCHANGED quiz_count
                  ELSE /\ quiz_count' = quiz_count + 1
                       /\ pc' = "fetch"
                       /\ UNCHANGED reason
    /\ plan' = NoPlan /\ parseKind' = "none" /\ answer' = None
    /\ submit_url' = <<>> /\ response' = NoResponse /\ lastPost' = NoPost
    /\ lastFetch' = NoFetch
    /\ UNCHANGED <<current_url, calls, nextSeen>>
    /\ UNCHANGED notChain

\* solve_single_quiz calls fetch_quiz_page: the browser attempt (lines
\* 91-99) and, when it succeeds, the test of the content (lines 55-57)
Fetch ==
    /\ pc = "fetch"
    /\ calls' = [calls EXCEPT !.fetch = @ + 1]
    /\ \E b \in BrowserOutcomes :
          /\ lastFetch' = [lastFetch EXCEPT
                             !.browser = @ + 1,
                             !.b = b,
                             !.content = IF b = "ok"
                                         THEN FetchQuizPage(b, "none")
                                         ELSE "pending"]
          /\ IF b = "ok"
             THEN IF ContentOk(lastFetch'.content)
                  THEN pc' = "plan" /\ UNCHANGED reason
                  ELSE Stop("fetch-failed")
             ELSE pc' = "fallback" /\ UNCHANGED reason
    /\ UNCHANGED <<current_url, quiz_count, elapsed, plan, parseKind, answer,
                   submit_url, response, lastPost, nextSeen>>
    /\ UNCHANGED notChain

\* fetch_quiz_page, lines 100-111: the plain GET after the browser failed,
\* and the test of the content in solve_single_quiz (lines 55-57)
FetchFallback ==
    /\ pc = "fallback"
    /\ \E h \in HttpOutcomes :
          /\ lastFetch' = [lastFetch EXCEPT
                             !.http = @ + 1,
                             !.h = h,
                             !.content = FetchQuizPage(lastFetch.b, h)]
          /\ IF ContentOk(lastFetch'.content)
             THEN pc' = "plan" /\ UNCHANGED reason
             ELSE Stop("fetch-failed")
    /\ UNCHANGED <<current_url, quiz_count, elapsed, plan, parseKind, answer,
                   submit_url, response, lastPost, nextSeen, calls>>
    /\ UNCHANGED notChain

\* analyze_and_solve: the plan request and the recovery of the plan
PlanExtract ==
    /\ pc = "plan"
    /\ calls' = [calls EXCEPT !.plan = @ + 1]
    /\ \/ \* the request raises, or the response is empty: return None
          /\ \E k \in {"raise", "empty"} : parseKind' = k
          /\ plan' = NoPlan
          /\ Stop("plan-failed")
       \/ \E analysis \in TextsUpTo(PlanTokens, MaxTextLen) \ {<<>>},
             fieldUrl \in PlanSubmitUrls :
             LET p == ParsePlan(analysis, fieldUrl)
             IN  /\ parseKind' = p.how
                 /\ plan' = [kind |-> p.kind, submit_url |-> p.submit_url]
                 /\ IF p.how = "raise"
                    THEN Stop("plan-failed")
                    ELSE pc' = "answer" /\ UNCHANGED reason
    /\ UNCHANGED <<current_url, quiz_count, elapsed, answer, submit_url,
                   response, lastPost, nextSeen, lastFetch>>
    /\ UNCHANGED notChain

\* analyze_and_solve from execute_solution_plan on, and solve_single_quiz up
\* to the call of submit_answer
ResolveAnswer ==
    /\ pc = "answer"
    /\ \E o \in AnswerOutcomes :
          /\ answer' = ExecuteSolutionPlan(plan.kind, o)
          /\ calls' = IF plan.kind = "dict"
                      THEN [calls EXCEPT !.answer = @ + 1] ELSE calls
    /\ IF plan.kind # "dict"
       THEN \* plan.get raises in analyze_and_solve: it returns None
            /\ submit_url' = <<>>
            /\ Stop("plan-failed")
       ELSE /\ submit_url' = RepairSubmitUrl(plan.submit_url, current_url)
            /\ IF submit_url' = <<>>
               THEN Stop("plan-failed")
               ELSE pc' = "submit" /\ UNCHANGED reason
    /\ UNCHANGED <<current_url, quiz_count, elapsed, plan, parseKind,
                   response, lastPost, nextSeen, lastFetch>>
    /\ UNCHANGED notChain

\* submit_answer, the inspection of the grading in solve_single_quiz and the
\* continuation in solve_quiz_chain
Submit ==
    /\ pc = "submit"
    /\ calls' = [calls EXCEPT !.post = @ + 1]
    /\ \E o \in PostOutcomes :
          /\ lastPost' = [to |-> submit_url, answer |-> answer,
                          outcome |-> o.kind]
          /\ response' = SubmitAnswer(o)
          /\ nextSeen' = IF o.kind = "dict" /\ o.url # <<>>
                         THEN nextSeen + 1 ELSE nextSeen
          /\ IF response'.kind = "nondict"
             THEN \* response.get raises; solve_quiz_chain logs and breaks
                  /\ Stop("error")
                  /\ UNCHANGED current_url
             ELSE IF NextUrlOf(response') # <<>>
             THEN /\ current_url' = NextUrlOf(response')
                  /\ pc' = "loop"
                  /\ UNCHANGED reason
             ELSE /\ Stop(IF response' = NoResponse THEN "submit-failed"
                          ELSE "completed")
                  /\ UNCHANGED current_url
    /\ UNCHANGED <<quiz_count, elapsed, plan, parseKind, answer, submit_url,
                   lastFetch>>
    /\ UNCHANGED notChain

Init == InitChain /\ UrlIdle /\ NumIdle /\ AppIdle /\ ChartIdle

Next ==
    \/ LoopCheck
    \/ Fetch
    \/ FetchFallback
    \/ PlanExtract
    \/ ResolveAnswer
    \/ Submit

Spec == Init /\ [][Next]_vars

TypeOK ==
    /\ pc \in {"loop", "fetch", "fallback", "plan", "answer", "submit",
              "done"}
    /\ quiz_count \in Nat /\ elapsed \in Nat /\ nextSeen \in Nat
    /\ current_url \in QuizUrls
    /\ answer \in {None, "value"}
    /\ reason \in {"running", "completed", "step-limit-reached",
                   "time-limit-reached", "fetch-failed", "plan-failed",
                   "submit-failed", "error"}

(***************************************************************************)
(* Properties of the chain controller                                      *)
(***************************************************************************)
\* Every step started so far ended in a grading that included a next URL
EveryStepNext == nextSeen = quiz_count

\* This step's POST has been made and a grading result came back
Graded == lastPost # NoPost /\ response.kind \in {"dict", "falsy"}

\* C1, as stated: whenever every grading response includes a next URL, the
\* chain stops after exactly 20 steps with reason step-limit-reached.
C1_AlwaysNextStopsAtLimit ==
    (pc = "done" /\ EveryStepNext)
        => (quiz_count = max_quizzes /\ reason = "step-limit-reached")

\* C1, amended: the step counter never decreases and never exceeds 20, no
\* more than 20 fetches, plan requests, answer requests or POSTs are made,
\* and a chain whose every grading response includes a next URL stops after
\* exactly 20 steps with reason step-limit-reached unless the 170-second
\* check at the start of a step stops it earlier.
C1_StepLimit ==
    /\ [][quiz_count' >= quiz_count]_vars
    /\ [](/\ quiz_count <= max_quizzes
          /\ calls.fetch <= max_quizzes /\ calls.plan <= max_quizzes
          /\ calls.answer <= max_quizzes /\ calls.post <= max_quizzes)
    /\ []((pc = "done" /\ EveryStepNext /\ reason # "time-limit-reached")
            => (/\ quiz_count = max_quizzes
                /\ reason = "step-limit-reached"
                /\ calls = [fetch |-> max_quizzes, plan |-> max_quizzes,
                            answer |-> max_quizzes, post |-> max_quizzes]))

C1_Witness ==
    /\ pc = "done" /\ reason = "step-limit-reached"
    /\ quiz_count = max_quizzes /\ nextSeen = max_quizzes
    /\ calls.post = max_quizzes

\* C2: when the elapsed time read at the start of a step exceeds 170
\* seconds, the chain stops with reason time-limit-reached without making a
\* call, and no fetch, plan, answer or submit call is made afterwards.
C2_TimeBudget ==
    /\ [][(pc = "loop" /\ current_url # <<>> /\ quiz_count < max_quizzes
           /\ elapsed' > TimeCeiling)
            => (pc' = "done" /\ reason' = "time-limit-reached"
                /\ quiz_count' = quiz_count /\ calls' = calls)]_vars
    /\ [][reason = "time-limit-reached"
            => (pc' = "done" /\ reason' = reason /\ calls' = calls)]_vars

C2_Witness ==
    /\ pc = "done" /\ reason = "time-limit-reached"
    /\ elapsed > TimeCeiling /\ quiz_count >= 1 /\ calls.post = quiz_count

\* C3: after a grading result the chain is Running with the result's next
\* URL exactly when a next URL is present, whatever the correct flag says,
\* and is Stopped(completed) otherwise; a chain whose gradings never include
\* a next URL stops after exactly one step.
C3_ContinueIffNextUrl ==
    Graded =>
        /\ IF response.url # <<>>
           THEN pc = "loop" /\ current_url = response.url
                /\ reason = "running"
           ELSE pc = "done" /\ reason = "completed"
        /\ nextSeen = 0 => (quiz_count = 1 /\ pc = "done"
                            /\ reason = "completed" /\ calls.post = 1)

C3_Witness ==
    /\ Graded /\ ~response.correct /\ response.url # <<>>
    /\ pc = "loop" /\ current_url = response.url /\ quiz_count >= 2

\* C4: a step whose answer resolution yields the failure signal makes no
\* submission POST and stops the chain with reason answer-failed.
C4_NoPostAfterAnswerFailure ==
    /\ (pc = "submit" \/ lastPost # NoPost) => answer # None
    /\ (pc # "answer" /\ pc # "loop" /\ plan.kind = "dict"
        /\ plan.submit_url # <<>> /\ answer = None)
            => (pc = "done" /\ reason = "answer-failed")

\* C5: a POST that fails at the network level or returns a status other
\* than 200 is a submission failure: the chain stops with reason
\* submit-failed, the POST was made once in that step, and no call follows.
C5_SubmitFailureStops ==
    /\ [](lastPost.outcome \in {"error", "status"}
            => (/\ response = NoResponse
                /\ pc = "done" /\ reason = "submit-failed"
                /\ calls.post = quiz_count))
    /\ [](calls.post <= quiz_count)
    /\ [][lastPost.outcome \in {"error", "status"}
            => (pc' = "done" /\ calls' = calls)]_vars

C5_Witness ==
    /\ lastPost.outcome = "status" /\ pc = "done"
    /\ reason = "submit-failed" /\ quiz_count >= 2

\* C6: a non-empty plan response that parses neither directly nor through
\* the substring from the first '{' to the last '}' ends the step in a plan
\* failure: no POST is made, the chain stops, and solve_single_quiz returns
\* without an exception reaching solve_quiz_chain.
C6_UnparsablePlanStops ==
    /\ [](parseKind \in {"errorplan", "raise"}
            => (/\ lastPost = NoPost
                /\ pc \in {"answer", "done"}
                /\ pc = "done" => reason = "plan-failed"
                /\ parseKind = "raise" => pc = "done"))
    /\ [][(parseKind = "errorplan" /\ pc = "answer")
            => (pc' = "done" /\ reason' = "plan-failed"
                /\ calls'.post = calls.post)]_vars

C6_Witness ==
    /\ parseKind = "errorplan" /\ pc = "done" /\ reason = "plan-failed"
    /\ calls.answer = quiz_count /\ calls.post = quiz_count - 1
    /\ quiz_count >= 2

\* C12: each fetch_quiz_page call attempts the browser exactly once and the
\* plain GET at most once and only after the browser attempt failed; it
\* returns the failure signal only when both attempts failed; and a step
\* whose fetch yields the failure signal stops the chain with reason
\* fetch-failed without a plan, answer or submit call.
C12_FetchOnceWithFallback ==
    /\ [](/\ lastFetch.browser <= 1 /\ lastFetch.http <= 1
          /\ (pc \in {"fallback", "plan", "answer", "submit"}
              \/ lastFetch.content # "pending") => lastFetch.browser = 1
          /\ lastFetch.http = 1
                => (lastFetch.browser = 1 /\ lastFetch.b = "fail")
          /\ lastFetch.content = None
                => (/\ lastFetch.b = "fail" /\ lastFetch.http = 1
                    /\ lastFetch.h \in {"status", "error"}
                    /\ pc = "done" /\ reason = "fetch-failed"
                    /\ lastPost = NoPost
                    /\ calls = [fetch |-> quiz_count,
                                plan |-> quiz_count - 1,
                                answer |-> quiz_count - 1,
                                post |-> quiz_count - 1]))
    /\ [][lastFetch.content = None => (pc' = "done" /\ calls' = calls)]_vars

C12_Witness ==
    /\ pc = "done" /\ reason = "fetch-failed" /\ lastFetch.content = None
    /\ lastFetch.b = "fail" /\ lastFetch.h = "status"
    /\ lastFetch.browser = 1 /\ lastFetch.http = 1 /\ quiz_count >= 2

(***************************************************************************)
(* The submit-URL repair on its own: analyze_and_solve, lines 172-190      *)
(***************************************************************************)
H_plain == <<"h",".","i","o">>
H_port  == <<"h",".","i","o",":","8","0">>
H_http  == <<"h","t","t","p","b","i","n",".","o","r","g">>

RepairSchemes == {T_http, T_https}
RepairHosts   == {H_plain, H_port, H_http}
RepairRests   == {<<>>, <<"/","q">>, <<"/","a","/","b","?","x","=","1">>,
                  <<"?","x">>}

\* Submit URLs the model may emit: a prefix followed by a body
SubmitPrefixes == {<<>>, T_slash, <<"x","/">>, T_http \o T_sep,
                   T_https \o T_sep, T_http}
SubmitBodies   == {<<"s">>, T_placeholder, T_placeholder \o <<"/","s">>,
                   <<"s","/">> \o T_placeholder}
SubmitInputs   == {<<>>} \cup {a \o b : a \in SubmitPrefixes,
                                        b \in SubmitBodies}

\* the quiz URL of an input
QuizUrlOf(in) == in.scheme \o T_sep \o in.host \o in.rest

InitUrl ==
    /\ ChainIdle /\ NumIdle /\ AppIdle /\ ChartIdle
    /\ uIn \in [scheme : RepairSchemes, host : RepairHosts,
                rest : RepairRests, submit : SubmitInputs]
    /\ uOut = [done |-> FALSE, url |-> <<>>, handed |-> "pending"]

\* submit_url = plan.get('submit_url', '') and its repair
RepairUrl ==
    /\ ~uOut.done
    /\ uOut' = [done |-> TRUE,
                url |-> RepairSubmitUrl(uIn.submit, QuizUrlOf(uIn)),
                handed |-> "pending"]
    /\ UNCHANGED <<uIn, chainVars, numVars, appVars, chartVars>>

\* solve_single_quiz, lines 67-77: without a submit URL it returns None,
\* otherwise the URL is handed to submit_answer
HandToSubmit ==
    /\ uOut.done /\ uOut.handed = "pending"
    /\ uOut' = [uOut EXCEPT !.handed = IF uOut.url = <<>> THEN "no-post"
                                       ELSE "post"]
    /\ UNCHANGED <<uIn, chainVars, numVars, appVars, chartVars>>

NextUrl ==
    \/ RepairUrl
    \/ HandToSubmit

SpecUrl == InitUrl /\ [][NextUrl]_vars

\* C7: a submit URL that starts with '/' is repaired to the quiz URL's
\* scheme, '://', the quiz URL's host (with its port), and the submit path
\* unchanged.
C7_RelativePathRepair ==
    (uOut.done /\ StartsWith(uIn.submit, T_slash))
        => uOut.url = uIn.scheme \o T_sep \o uIn.host \o uIn.submit

C7_Witness ==
    /\ uOut.done /\ StartsWith(uIn.submit, T_slash)
    /\ uIn.host = H_port /\ uIn.rest = <<"?","x">>
    /\ uOut.url = uIn.scheme \o T_sep \o H_port \o uIn.submit

\* the text starts with a scheme followed by '://'
StartsWithScheme(u) ==
    \E i \in 1..(Len(u) - 3) :
        /\ SubSeq(u, i + 1, i + 3) = T_sep
        /\ u[1] \in Letters
        /\ \A k \in 1..i : u[k] \in Letters \cup Digits \cup {"+", "-", "."}

\* C8: a submit URL that contains the placeholder token, wherever it occurs
\* and whatever the URL starts with, is repaired by replacing the token with
\* the quiz URL's host, and by prefixing the quiz URL's scheme when the URL
\* did not already start with one.
C8_PlaceholderRepair ==
    (uOut.done /\ Contains(uIn.submit, T_placeholder))
        => uOut.url =
             (IF StartsWithScheme(uIn.submit) THEN <<>>
              ELSE uIn.scheme \o T_sep)
             \o Replace(uIn.submit, T_placeholder, uIn.host)

\* the URL has a scheme and a host
IsAbsolute(parsed) == parsed.scheme # <<>> /\ parsed.netloc # <<>>

\* C11: every URL handed to submit_answer has a scheme and a host and
\* contains no placeholder token, whatever submit URL the model emitted and
\* whatever the quiz URL; an empty or missing submit URL causes no POST.
C11_PostUrlAbsolute ==
    /\ uOut.handed = "post" =>
          /\ IsAbsolute(UrlParse(uOut.url))
          /\ ~Contains(uOut.url, T_placeholder)
    /\ (uOut.handed # "pending" /\ uIn.submit = <<>>)
          => uOut.handed = "no-post"

(***************************************************************************)
(* The coercion of shape 'number' on its own: execute_solution_plan,       *)
(* lines 238-248                                                           *)
(***************************************************************************)
DigitValue(c) ==
    CASE c = "0" -> 0 [] c = "1" -> 1 [] c = "2" -> 2 [] c = "3" -> 3
      [] c = "4" -> 4 [] c = "5" -> 5 [] c = "6" -> 6 [] c = "7" -> 7
      [] c = "8" -> 8 [] c = "9" -> 9

\* index of the last digit of the run of digits that starts at k; k - 1
\* when t[k] is not a digit
RunEnd(t, k) ==
    LET ends == {e \in (k - 1)..Len(t) :
                    /\ \A m \in k..e : t[m] \in Digits
                    /\ e < Len(t) => t[e + 1] \notin Digits}
    IN  CHOOSE e \in ends : \A f \in ends : e <= f

\* -?\d+ matches at position i
MatchesAt(t, i) ==
    \/ t[i] \in Digits
    \/ t[i] = "-" /\ i < Len(t) /\ t[i + 1] \in Digits

\* the match of -?\d+\.?\d* that starts at i
TokenFrom(t, i) ==
    LET d == RunEnd(t, IF t[i] = "-" THEN i + 1 ELSE i)
    IN  IF d < Len(t) /\ t[d + 1] = "."
        THEN SubSeq(t, i, RunEnd(t, d + 2))
        ELSE SubSeq(t, i, d)

\* re.findall(r'-?\d+\.?\d*', answer_text): the first match, <<>> if none
FirstNumber(t) ==
    LET at == {i \in 1..Len(t) : MatchesAt(t, i)}
    IN  IF at = {} THEN <<>>
        ELSE TokenFrom(t, CHOOSE i \in at : \A j \in at : i <= j)

RECURSIVE Pow10(_)
Pow10(n) == IF n = 0 THEN 1 ELSE 10 * Pow10(n - 1)

RECURSIVE DigitsValue(_)
\* the number written by a text of digits (0 for the empty text)
DigitsValue(ds) ==
    IF ds = <<>> THEN 0
    ELSE 10 * DigitsValue(DropLast(ds)) + DigitValue(ds[Len(ds)])

Unsigned(tok) == IF Head(tok) = "-" THEN Tail(tok) ELSE tok
Sign(tok)     == IF Head(tok) = "-" THEN -1 ELSE 1

\* int(token)
IntOf(tok) ==
    [kind |-> "int", tok |-> tok, num |-> Sign(tok) * DigitsValue(Unsigned(tok)),
     den |-> 1]

\* float(token) as the fraction num / den, den a power of ten
FloatParts(tok, ip, fp) ==
    [kind |-> "float", tok |-> tok,
     num |-> Sign(tok) * (DigitsValue(ip) * Pow10(Len(fp)) + DigitsValue(fp)),
     den |-> Pow10(Len(fp))]

FloatOf(tok) ==
    FloatParts(tok, SplitOn(Unsigned(tok), <<".">>)[1],
               SplitOn(Unsigned(tok), <<".">>)[2])

TextAnswer(t) == [kind |-> "text", tok |-> t, num |-> 0, den |-> 1]

\* float(numbers[0]) if '.' in numbers[0] else int(numbers[0])
NumberOf(tok) == IF Contains(tok, <<".">>) THEN FloatOf(tok) ELSE IntOf(tok)

\* the branch answer_format == 'number'
CoerceNumber(t) ==
    IF FirstNumber(t) # <<>> THEN NumberOf(FirstNumber(t)) ELSE TextAnswer(t)

T_answer42 == <<"T","h","e"," ","a","n","s","w","e","r"," ","i","s"," ",
                "4","2",".">>
T_total314 == <<"T","o","t","a","l",":"," ","3",".","1","4"," ","u","n",
                "i","t","s">>
T_nonumber == <<"n","o","n","e">>

NumberChars == {"4", "0", ".", "-", "a"}

\* answer texts: non-empty after strip()
AnswerTexts ==
    (TextsUpTo(NumberChars, MaxTextLen) \ {<<>>})
    \cup {T_answer42, T_total314, T_nonumber}

InitNum ==
    /\ ChainIdle /\ UrlIdle /\ AppIdle /\ ChartIdle
    /\ nIn \in AnswerTexts
    /\ nOut = [kind |-> "none"]

Coerce ==
    /\ nOut.kind = "none"
    /\ nOut' = CoerceNumber(nIn)
    /\ UNCHANGED <<nIn, chainVars, urlVars, appVars, chartVars>>

NextNum == Coerce

SpecNum == InitNum /\ [][NextNum]_vars

\* the token has a decimal point followed by at least one digit
HasDecimalDigits(tok) ==
    \E i \in 1..(Len(tok) - 1) : tok[i] = "." /\ tok[i + 1] \in Digits

\* C9: for shape 'number' the answer is the first numeric token, an integer
\* when the token is a whole number without decimal digits and a float when
\* it has a decimal point: "The answer is 42." gives the integer 42,
\* "Total: 3.14 units" the float 3.14, and a text without a numeric token
\* gives the raw text.
C9_NumberCoercion ==
    nOut.kind # "none" =>
        /\ nIn = T_answer42 => (nOut.kind = "int" /\ nOut.num = 42)
        /\ nIn = T_total314 =>
               (nOut.kind = "float" /\ nOut.num * 100 = 314 * nOut.den)
        /\ (\A i \in 1..Len(nIn) : nIn[i] \notin Digits)
               => nOut = TextAnswer(nIn)
        /\ nOut.kind = "int" => ~HasDecimalDigits(nOut.tok)
        /\ nOut.kind = "float" => HasDecimalDigits(nOut.tok)

(***************************************************************************)
(* The acceptance endpoint: app.quiz_endpoint                              *)
(***************************************************************************)
Requests == 1..MaxRequests

\* Request bodies.  kind: "invalid" (get_json raises), "falsy" (null, {},
\* [], 0, ...), "nondict" (a non-empty JSON value that is not an object),
\* "dict" (a non-empty object).  secret and url are the object's members.
Bodies ==
    {[kind |-> k, secret |-> "none", url |-> "none"] :
        k \in {"invalid", "falsy", "nondict"}}
    \cup {[kind |-> "dict", secret |-> x, url |-> u] :
            x \in {"none", "good", "bad"}, u \in {"none", "empty", "u"}}

ExpectedSecret == "good"       \* EXPECTED_SECRET = os.getenv('SECRET')

\* the endpoint without the test of the URL
Decide_UrlUnchecked(b) ==
    IF b.kind \in {"invalid", "falsy"} THEN 400
    ELSE IF b.kind = "nondict" THEN 500
    ELSE IF b.secret # ExpectedSecret THEN 403
    ELSE 200

\* quiz_endpoint, lines 33-51: the status the request is answered with; 200
\* stands for acceptance, 500 for the AttributeError of data.get on a value
\* that is not an object
Decide(b) ==
    IF b.kind \in {"invalid", "falsy"} THEN 400
    ELSE IF b.kind = "nondict" THEN 500
    ELSE IF b.secret # ExpectedSecret THEN 403
    ELSE IF b.url \in {"none", "empty"} THEN 400
    ELSE 200

InitApp ==
    /\ ChainIdle /\ UrlIdle /\ NumIdle /\ ChartIdle
    /\ hpc = [r \in Requests |-> "waiting"]
    /\ body \in [Requests -> Bodies]
    /\ status = [r \in Requests |-> 0]
    /\ started = [r \in Requests |-> 0]
    /\ wpc = [r \in Requests |-> "none"]

\* lines 33-64: validation and, on success, thread.start()
Handle(r) ==
    /\ hpc[r] = "waiting"
    /\ IF Decide(body[r]) = 200
       THEN /\ started' = [started EXCEPT ![r] = @ + 1]
            /\ wpc' = [wpc EXCEPT ![r] = "ready"]
            /\ hpc' = [hpc EXCEPT ![r] = "started"]
            /\ UNCHANGED status
       ELSE /\ status' = [status EXCEPT ![r] = Decide(body[r])]
            /\ hpc' = [hpc EXCEPT ![r] = "done"]
            /\ UNCHANGED <<started, wpc>>
    /\ UNCHANGED <<body, chainVars, urlVars, numVars, chartVars>>

\* lines 66-69: the acknowledgment, right after thread.start()
Respond(r) ==
    /\ hpc[r] = "started"
    /\ status' = [status EXCEPT ![r] = 200]
    /\ hpc' = [hpc EXCEPT ![r] = "done"]
    /\ UNCHANGED <<body, started, wpc, chainVars, urlVars, numVars,
                   chartVars>>

\* solve_quiz_async: the thread begins QuizSolver(...).solve_quiz_chain(url)
WorkerRun(r) ==
    /\ wpc[r] = "ready"
    /\ wpc' = [wpc EXCEPT ![r] = "running"]
    /\ UNCHANGED <<hpc, body, status, started, chainVars, urlVars, numVars,
                   chartVars>>

\* solve_quiz_async: the chain has ended (or raised, which is logged)
WorkerEnd(r) ==
    /\ wpc[r] = "running"
    /\ wpc' = [wpc EXCEPT ![r] = "finished"]
    /\ UNCHANGED <<hpc, body, status, started, chainVars, urlVars, numVars,
                   chartVars>>

NextApp ==
    \/ \E r \in Requests : Handle(r)
    \/ \E r \in Requests : Respond(r)
    \/ \E r \in Requests : WorkerRun(r)
    \/ \E r \in Requests : WorkerEnd(r)

SpecApp == InitApp /\ [][NextApp]_vars

\* the body is present, its secret is the configured one, its URL is present
Acceptable(b) == b.kind = "dict" /\ b.secret = ExpectedSecret /\ b.url = "u"

\* C10: a worker is started if and only if the body is present, its secret
\* equals the configured secret and its URL is present; a mismatching
\* secret is answered 403 and a missing body or URL 400, with no worker; an
\* accepted request starts exactly one worker and its acknowledgment can be
\* returned whatever the worker has done so far.
C10_Acceptance ==
    \A r \in Requests :
        /\ hpc[r] = "waiting" => (started[r] = 0 /\ wpc[r] = "none")
        /\ hpc[r] # "waiting" =>
              /\ started[r] = (IF Acceptable(body[r]) THEN 1 ELSE 0)
              /\ (wpc[r] # "none") <=> Acceptable(body[r])
        /\ hpc[r] = "started" => ENABLED Respond(r)
        /\ hpc[r] = "done" =>
              /\ Acceptable(body[r]) <=> status[r] = 200
              /\ (body[r].kind = "dict" /\ body[r].secret # ExpectedSecret)
                    => status[r] = 403
              /\ (\/ body[r].kind \in {"invalid", "falsy"}
                  \/ /\ body[r].kind = "dict"
                     /\ body[r].secret = ExpectedSecret
                     /\ body[r].url # "u")
                    => status[r] = 400

\* the acknowledgment is out while the worker has not made a step
C10_Witness ==
    \E r \in Requests :
        /\ hpc[r] = "done" /\ status[r] = 200 /\ started[r] = 1
        /\ wpc[r] = "ready"

(***************************************************************************)
(* The image branch of execute_solution_plan and prepare_chart_data.      *)
(* A datum is what fetch_and_process returned and the caller kept: a      *)
(* dictionary with a 'type', or the bare text of a response of unknown    *)
(* content type (type "str" here).  rows is the number of rows of the     *)
(* csv table or of the FIRST sheet of the workbook; payload is the shape  *)
(* of the decoded json document.                                          *)
(***************************************************************************)
Datum(type, rows, payload) ==
    [type |-> type, rows |-> rows, payload |-> payload]

AcquiredData ==
    {Datum("csv", n, "none") : n \in 0..1}
    \cup {Datum("excel", n, "none") : n \in 0..1}
    \cup {Datum("json", 0, p) : p \in {"dict", "list"}}
    \cup {Datum(t, 0, "none") : t \in {"pdf", "html", "str"}}

DownloadedLists == TextsUpTo(AcquiredData, MaxData)

\* the test one loop iteration makes before it returns the datum
Selects(d) ==
    \/ d.type \in {"csv", "excel"} /\ d.rows > 0
    \/ d.type = "json" /\ d.payload = "dict"

\* prepare_chart_data that looks for a table in the whole list first
PrepareChartData_TabularFirst(data, i) ==
    LET tables == {k \in 1..Len(data) :
                     data[k].type \in {"csv", "excel"} /\ data[k].rows > 0}
        dicts  == {k \in 1..Len(data) :
                     data[k].type = "json" /\ data[k].payload = "dict"}
        least(S) == CHOOSE k \in S : \A m \in S : k <= m
    IN  IF tables # {} THEN least(tables)
        ELSE IF dicts # {} THEN least(dicts)
        ELSE 0

\* the loop of prepare_chart_data from position i on: the position of the
\* datum returned, 0 for None.  data_item.get on a bare string raises, and
\* the except clause of the function returns None.
RECURSIVE PrepareChartData(_, _)
PrepareChartData(data, i) ==
    IF i > Len(data) THEN 0
    ELSE IF data[i].type = "str" THEN 0
    ELSE IF Selects(data[i]) THEN i
    ELSE PrepareChartData(data, i + 1)

ChartOutcomes == {"image", "none"}   \* create_chart: a data URI or None

InitChart ==
    /\ cIn \in DownloadedLists
    /\ cOut = NoChart
    /\ ChainIdle /\ UrlIdle /\ NumIdle /\ AppIdle

\* execute_solution_plan, the image branch
ResolveImage ==
    /\ ~cOut.done
    /\ \E made \in ChartOutcomes :
          LET chart_data == PrepareChartData(cIn, 1)
              base64_chart == IF chart_data = 0 THEN "none" ELSE made
          IN  cOut' = [done |-> TRUE,
                       selected |-> chart_data,
                       chart |-> base64_chart,
                       answer |-> IF base64_chart = "image"
                                  THEN "image" ELSE "text"]
    /\ UNCHANGED <<cIn, chainVars, urlVars, numVars, appVars>>

NextChart == ResolveImage

SpecChart == InitChart /\ [][NextChart]_vars

UsableTable(d) == d.type \in {"csv", "excel"} /\ d.rows > 0
UsableDict(d)  == d.type = "json" /\ d.payload = "dict"

\* C13: whenever the list holds a usable table and a json dictionary, the
\* datum selected for the chart is the first usable table, whatever the
\* order of the list.
C13_TabularPreferred ==
    (/\ cOut.done
     /\ \E k \in 1..Len(cIn) : UsableTable(cIn[k])
     /\ \E k \in 1..Len(cIn) : UsableDict(cIn[k]))
        => /\ cOut.selected \in 1..Len(cIn)
           /\ UsableTable(cIn[cOut.selected])
           /\ \A k \in 1..(cOut.selected - 1) : ~UsableTable(cIn[k])

\* C13, as the code has it: the datum selected is the first one in list
\* order that is a usable table or a json dictionary, with no preference
\* between the two, provided no bare-text datum stands before it; otherwise
\* nothing is selected.  With nothing selected, or no chart made, the answer
\* is the raw text; otherwise it is the image.
C13_FirstUsableInOrder ==
    cOut.done =>
        LET usable == {k \in 1..Len(cIn) :
                         UsableTable(cIn[k]) \/ UsableDict(cIn[k])}
            reached == {k \in usable :
                          \A m \in 1..k : cIn[m].type # "str"}
        IN  /\ reached # {} =>
                 /\ cOut.selected \in reached
                 /\ \A k \in usable : cOut.selected <= k
            /\ reached = {} => cOut.selected = 0
            /\ cOut.selected = 0 => (cOut.chart = "none" /\ cOut.answer = "text")
            /\ cOut.answer = (IF cOut.chart = "image" THEN "image" ELSE "text")

\* a json dictionary is charted although a usable table follows it
C13_Witness ==
    /\ cOut.done /\ cOut.selected \in 1..Len(cIn)
    /\ UsableDict(cIn[cOut.selected])
    /\ \E k \in (cOut.selected + 1)..Len(cIn) : UsableTable(cIn[k])
    /\ cOut.answer = "image"

====
